---- MODULE Spec2Model ----
(***************************************************************************)
(* todo-tui (src/src/main.rs): the process main(), the event loop run_app, *)
(* the App state (input mode, popup buffer, cached width, popup flag) and  *)
(* the StateList (items plus tui's ListState selection).                   *)
(***************************************************************************)
EXTENDS Integers, Sequences, FiniteSets, TLC

\* ------------------------------------------------------------------ bounds

\* Longest item list the model lets a session build.
MaxItems == 2

\* How far the selection may move away from 0 or from UsizeMax while it is
\* outside the list (wrapping build only); caps an otherwise 2^w-step walk.
MaxDrift == 2

\* Width in bits given to usize in the model. The width is the target's
\* pointer width; the wrapped value of 0 - 1 is 2^w - 1 for whatever w is.
UsizeBits == 16

\* Width of u16, the type of App::input_width.
U16Bits == 16

UsizeModulus == 2 ^ UsizeBits

UsizeMax == UsizeModulus - 1

U16Modulus == 2 ^ U16Bits

\* The texts typed in the modelled sessions: the popup buffer is always a
\* prefix of one of these words.
Words == { <<"m", "i", "l", "k">>, <<"a", "b", "c">>, <<"p">> }

Prefixes(w) == { SubSeq(w, 1, n) : n \in 0..Len(w) }

Texts == UNION { Prefixes(w) : w \in Words }

Chars == UNION { { w[n] : n \in 1..Len(w) } : w \in Words }

\* How many key presses short of, and past, the buffer length that puts the
\* cursor in the last u16 column the long-typing sessions are followed.
MaxHeld == 1

\* ------------------------------------------------------------------ values

\* Option<usize> of ListState::selected
None == << >>

Some(i) == << i >>

IsSome(o) == Len(o) = 1

Unwrap(o) == o[1]

\* crossterm KeyCode values the loop distinguishes, and one it does not
Char(c) == << "Char", c >>

Esc == << "Esc" >>

Enter == << "Enter" >>

Backspace == << "Backspace" >>

Left == << "Left" >>

Down == << "Down" >>

Up == << "Up" >>

Tab == << "Tab" >>

KeyCodes == { Char(c) : c \in Chars } \cup { Esc, Enter, Backspace, Left, Down, Up, Tab }

\* crossterm KeyModifiers values
KeyModifiers == { "NONE", "SHIFT", "CONTROL" }

VARIABLES
    pc,               \* position of main(): the call it is about to make
    res,              \* main's `res`, the result of run_app
    outcome,          \* how the process ended: "running", "Ok", "Err", "panic"
    diagnostic,       \* an error or panic message has been printed
    io_failed,        \* the terminal driver has reported an I/O failure
    raw_mode,         \* the terminal device is in raw mode
    alt_screen,       \* the terminal device shows the alternate screen
    overflow_checks,  \* the build checks integer overflow (debug profile)
    popup_input,      \* App::popup_input, a sequence of chars
    input_mode,       \* App::input_mode
    input_width,      \* App::input_width
    items,            \* App::items.items
    selected,         \* App::items.state.selected()
    show_popup,       \* App::show_popup
    size,             \* f.size(): the terminal's area
    area              \* the popup region the last draw rendered, if any

app == << popup_input, input_mode, input_width, items, selected, show_popup >>

term == << raw_mode, alt_screen >>

proc == << pc, res, outcome, diagnostic, io_failed >>

screen == << size, area >>

vars == << pc, res, outcome, diagnostic, io_failed, raw_mode, alt_screen,
           overflow_checks, popup_input, input_mode, input_width, items,
           selected, show_popup, size, area >>

\* ------------------------------------------------------------------ StateList

\* usize subtraction that the wrapping build performs
WrappingSub(a, b) == (a - b + UsizeModulus) % UsizeModulus

\* `self.items.len() - 1` overflows exactly when the list is empty
LenMinusOneOverflows(len) == len = 0

\* StateList::next panics: Some(i) evaluates len - 1 (line 28)
next_panics(sel, len, checks) == checks /\ IsSome(sel) /\ LenMinusOneOverflows(len)

\* next with the wrap test off by one (`>` for `>=`)
next_selected_WrapsLate(sel, len) ==
    IF IsSome(sel)
    THEN IF Unwrap(sel) > WrappingSub(len, 1) THEN Some(0) ELSE Some(Unwrap(sel) + 1)
    ELSE Some(0)

\* StateList::next, the selection it stores when it does not panic
next_selected(sel, len) ==
    IF IsSome(sel)
    THEN IF Unwrap(sel) >= WrappingSub(len, 1) THEN Some(0) ELSE Some(Unwrap(sel) + 1)
    ELSE Some(0)

\* StateList::previous panics: Some(0) evaluates len - 1 (line 42)
previous_panics(sel, len, checks) ==
    checks /\ IsSome(sel) /\ Unwrap(sel) = 0 /\ LenMinusOneOverflows(len)

\* previous that stops at index 0 instead of wrapping to the last item
previous_selected_NoWrap(sel, len) ==
    IF IsSome(sel)
    THEN IF Unwrap(sel) = 0 THEN Some(0) ELSE Some(Unwrap(sel) - 1)
    ELSE Some(0)

\* StateList::previous, the selection it stores when it does not panic
previous_selected(sel, len) ==
    IF IsSome(sel)
    THEN IF Unwrap(sel) = 0 THEN Some(WrappingSub(len, 1)) ELSE Some(Unwrap(sel) - 1)
    ELSE Some(0)

\* unselect that leaves the selection as it is
unselect_selected_Keeps(sel) == sel

\* StateList::unselect
unselect_selected(sel) == None

\* push that overwrites the last item instead of growing the list
push_items_Overwrites(its, value) ==
    IF Len(its) = 0 THEN << value >> ELSE [its EXCEPT ![Len(its)] = value]

\* StateList::push
push_items(its, value) == Append(its, value)

\* ------------------------------------------------------------------ App

\* App::set_input_width: chars().count() as u16
set_input_width(input) == Len(input) % U16Modulus

\* push that stores the item at the front of the list
App_push_Front(its, input) == << << input, 1 >> >> \o its

\* App::push: the tuple (popup_input, 1) goes to the end of the list
App_push(its, input) == push_items(its, << input, 1 >>)

\* A selection the model follows: inside the list, or within MaxDrift of
\* either end of usize.
SelBounded(sel) ==
    \/ ~IsSome(sel)
    \/ Unwrap(sel) <= MaxItems + MaxDrift
    \/ Unwrap(sel) >= UsizeMax - MaxDrift

\* ------------------------------------------------------------------ layout

\* tui Rect
Rect(x, y, w, h) == [x |-> x, y |-> y, width |-> w, height |-> h]

\* the popup's share of the terminal, in percent
PopupPercentX == 60

PopupPercentY == 10

RECURSIVE SumFirst(_, _)
SumFirst(seq, n) == IF n = 0 THEN 0 ELSE SumFirst(seq, n - 1) + seq[n]

\* Layout::split with Percentage constraints: each chunk starts at the
\* floor of the preceding percentages of the length and is the floor of
\* its own percentage long; the last chunk takes what is left up to the
\* end of the area.
Layout_split(direction, percents, r) ==
    LET length == IF direction = "Vertical" THEN r.height ELSE r.width
        start == IF direction = "Vertical" THEN r.y ELSE r.x
        pos(i) == start + (SumFirst(percents, i - 1) * length) \div 100
        rest(i) == IF start + length >= pos(i) THEN start + length - pos(i) ELSE 0
        len(i) == IF i = Len(percents) THEN rest(i) ELSE (percents[i] * length) \div 100
    IN  [i \in 1..Len(percents) |->
            IF direction = "Vertical"
            THEN Rect(r.x, pos(i), r.width, len(i))
            ELSE Rect(pos(i), r.y, len(i), r.height)]

\* the three horizontal chunks centered_rect cuts the middle row into
centered_columns(percent_x, row) ==
    Layout_split("Horizontal",
                 << (100 - percent_x) \div 2, percent_x, (100 - percent_x) \div 2 >>,
                 row)

\* centered_rect with the margins not halved
centered_rect_MarginsNotHalved(percent_x, percent_y, r) ==
    LET popup_layout ==
            Layout_split("Vertical", << 100 - percent_y, percent_y, 100 - percent_y >>, r)
    IN  Layout_split("Horizontal", << 100 - percent_x, percent_x, 100 - percent_x >>,
                     popup_layout[2])[2]

\* centered_rect
centered_rect(percent_x, percent_y, r) ==
    LET popup_layout ==
            Layout_split("Vertical",
                         << (100 - percent_y) \div 2, percent_y, (100 - percent_y) \div 2 >>,
                         r)
    IN  centered_columns(percent_x, popup_layout[2])[2]

\* ui: the popup is rendered into centered_rect(60, 10, size) when
\* show_popup is set, and not at all otherwise
ui_popup_area(show, sz) ==
    IF show THEN Some(centered_rect(PopupPercentX, PopupPercentY, sz)) ELSE None

\* ui panics: in Editing with the popup shown it computes the cursor
\* position area.x + input_width + 1 and area.y + 1 in u16 (lines 256-257);
\* a build with overflow checks panics when a sum exceeds u16::MAX, a
\* build without them wraps the cursor position
ui_panics(show, mode, width, sz, checks) ==
    /\ checks
    /\ show
    /\ mode = "Editing"
    /\ LET a == centered_rect(PopupPercentX, PopupPercentY, sz)
       IN  \/ a.x + width + 1 > U16Modulus - 1
           \/ a.y + 1 > U16Modulus - 1

\* ui: the cursor position handed to f.set_cursor (lines 255-258) when the
\* sums do not panic; a build without overflow checks wraps them
ui_cursor(width, sz) ==
    LET a == centered_rect(PopupPercentX, PopupPercentY, sz)
    IN  [x |-> (a.x + width + 1) % U16Modulus, y |-> (a.y + 1) % U16Modulus]

\* crossterm MoveTo(x, y), which terminal.draw issues for the cursor ui
\* set: it writes the 1-based column x + 1 and row y + 1, both u16 sums, so
\* a build with overflow checks panics at column or row u16::MAX
MoveTo_panics(x, y, checks) ==
    /\ checks
    /\ \/ x + 1 > U16Modulus - 1
       \/ y + 1 > U16Modulus - 1

\* terminal.draw(|f| ui(f, &mut app)) panics: in ui itself, or when the
\* cursor ui set is moved to after the frame is drawn
draw_panics(show, mode, width, sz, checks) ==
    \/ ui_panics(show, mode, width, sz, checks)
    \/ /\ show
       /\ mode = "Editing"
       /\ MoveTo_panics(ui_cursor(width, sz).x, ui_cursor(width, sz).y, checks)

\* the buffer length at which the cursor column ui asks for is u16::MAX
CursorLimit(sz) ==
    (U16Modulus - 1) - (centered_rect(PopupPercentX, PopupPercentY, sz).x + 1)

\* the buffer after the a key was pressed n times in an empty popup
Held(n) == [i \in 1..n |-> "a"]

\* The popup buffers the model follows: a prefix of one of Words, or the a
\* key held down until the cursor is within MaxHeld columns of u16::MAX.
BufBounded(input, sz) ==
    \/ input \in Texts
    \/ /\ Len(input) >= CursorLimit(sz) - MaxHeld
       /\ Len(input) <= CursorLimit(sz) + MaxHeld
       /\ input = Held(Len(input))

\* The terminal sizes of the modelled sessions; a session keeps its size.
Sizes == { Rect(0, 0, 100, 100) }

LayoutSizes ==
    { Rect(0, 0, 100, 100), Rect(0, 0, 101, 100), Rect(0, 0, 101, 101),
      Rect(0, 0, 103, 51), Rect(0, 0, 80, 24) }

\* process start: App::new() on a terminal of one of the sizes, built with
\* or without overflow checks
Start(sizes, builds) ==
    /\ pc = "enable_raw_mode"
    /\ res = "pending"
    /\ outcome = "running"
    /\ diagnostic = FALSE
    /\ io_failed = FALSE
    /\ raw_mode = FALSE
    /\ alt_screen = FALSE
    /\ overflow_checks \in builds
    /\ popup_input = << >>
    /\ input_mode = "Normal"
    /\ input_width = 0
    /\ items = << >>
    /\ selected = None
    /\ show_popup = FALSE
    /\ size \in sizes
    /\ area = None

Init == Start(Sizes, BOOLEAN)

\* sessions on terminals of several sizes, even and odd
InitLayout == Start(LayoutSizes, { TRUE })

\* the loop waiting for a key after p and then n presses of a, every draw
\* and read so far having succeeded: each press ran the Char arm (lines
\* 145-150), none of the draws reached the last cursor column
Typed(sizes, builds, n) ==
    /\ pc = "read"
    /\ res = "pending"
    /\ outcome = "running"
    /\ diagnostic = FALSE
    /\ io_failed = FALSE
    /\ raw_mode = TRUE
    /\ alt_screen = TRUE
    /\ overflow_checks \in builds
    /\ popup_input = Held(n)
    /\ input_mode = "Editing"
    /\ input_width = set_input_width(Held(n))
    /\ items = << >>
    /\ selected = None
    /\ show_popup = TRUE
    /\ size \in sizes
    /\ area = ui_popup_area(TRUE, size)

\* sessions from process start, and sessions picked up where the user has
\* held the a key down to MaxHeld presses short of the last cursor column
InitLong ==
    \/ Start(Sizes, BOOLEAN)
    \/ \E sz \in Sizes : Typed({ sz }, BOOLEAN, CursorLimit(sz) - MaxHeld)

\* ------------------------------------------------------------------ main: setup

\* `?` on a failed call: main returns Err, the runtime prints it, exit code 1
ReturnErr ==
    /\ pc' = "exited"
    /\ outcome' = "Err"
    /\ diagnostic' = TRUE
    /\ io_failed' = TRUE
    /\ UNCHANGED res

EnableRawModeOk ==
    /\ pc = "enable_raw_mode"
    /\ raw_mode' = TRUE
    /\ pc' = "enter_alternate_screen"
    /\ UNCHANGED << res, outcome, diagnostic, io_failed, alt_screen, overflow_checks, screen, app >>

EnableRawModeErr ==
    /\ pc = "enable_raw_mode"
    /\ ReturnErr
    /\ UNCHANGED << term, overflow_checks, screen, app >>

EnterAlternateScreenOk ==
    /\ pc = "enter_alternate_screen"
    /\ alt_screen' = TRUE
    /\ pc' = "terminal_new"
    /\ UNCHANGED << res, outcome, diagnostic, io_failed, raw_mode, overflow_checks, screen, app >>

\* execute! writes the escape sequences and flushes; when it fails the
\* sequence may or may not have reached the terminal
EnterAlternateScreenErr ==
    /\ pc = "enter_alternate_screen"
    /\ alt_screen' \in BOOLEAN
    /\ ReturnErr
    /\ UNCHANGED << raw_mode, overflow_checks, screen, app >>

TerminalNewOk ==
    /\ pc = "terminal_new"
    /\ pc' = "draw"
    /\ UNCHANGED << res, outcome, diagnostic, io_failed, term, overflow_checks, screen, app >>

TerminalNewErr ==
    /\ pc = "terminal_new"
    /\ ReturnErr
    /\ UNCHANGED << term, overflow_checks, screen, app >>

\* ------------------------------------------------------------------ run_app

\* run_app returns Err(e) through `?`
LoopErr ==
    /\ res' = "Err"
    /\ io_failed' = TRUE
    /\ pc' = "disable_raw_mode"
    /\ UNCHANGED << outcome, diagnostic, term, overflow_checks, screen, app >>

\* a panic unwinds out of main: nothing after the panicking call runs
Panic ==
    /\ pc' = "exited"
    /\ outcome' = "panic"
    /\ diagnostic' = TRUE
    /\ UNCHANGED << res, io_failed, term, overflow_checks, screen, app >>

\* terminal.draw(|f| ui(f, &mut app)): ui renders the popup when show_popup
DrawOk ==
    /\ pc = "draw"
    /\ IF draw_panics(show_popup, input_mode, input_width, size, overflow_checks)
       THEN Panic
       ELSE /\ area' = ui_popup_area(show_popup, size)
            /\ pc' = "read"
            /\ UNCHANGED << res, outcome, diagnostic, io_failed, term, overflow_checks,
                            size, app >>

DrawErr ==
    /\ pc = "draw"
    /\ LoopErr

ReadErr ==
    /\ pc = "read"
    /\ LoopErr

\* an event that is not Event::Key (mouse, resize): the loop draws again
ReadOtherEvent ==
    /\ pc = "read"
    /\ pc' = "draw"
    /\ UNCHANGED << res, outcome, diagnostic, io_failed, term, overflow_checks, screen, app >>

\* what every key arm that stays in the loop leaves alone
Handled ==
    /\ pc' = "draw"
    /\ UNCHANGED << res, outcome, diagnostic, io_failed, term, overflow_checks, screen >>

\* (KeyCode::Char('p'), KeyModifiers::NONE) in Normal
NormalOpenPopup(code, mods) ==
    /\ code = Char("p") /\ mods = "NONE"
    /\ show_popup' = ~show_popup
    /\ input_mode' = "Editing"
    /\ Handled
    /\ UNCHANGED << popup_input, input_width, items, selected >>

\* (KeyCode::Esc, KeyModifiers::NONE) in Normal: return Ok(())
NormalEsc(code, mods) ==
    /\ code = Esc /\ mods = "NONE"
    /\ res' = "Ok"
    /\ pc' = "disable_raw_mode"
    /\ UNCHANGED << outcome, diagnostic, io_failed, term, overflow_checks, screen, app >>

\* Left that also recomputes the cached width
NormalLeft_RecomputesWidth(code, mods) ==
    /\ code = Left
    /\ selected' = unselect_selected(selected)
    /\ input_width' = set_input_width(popup_input)
    /\ Handled
    /\ UNCHANGED << popup_input, input_mode, items, show_popup >>

\* (KeyCode::Left, _) in Normal
NormalLeft(code, mods) ==
    /\ code = Left
    /\ selected' = unselect_selected(selected)
    /\ Handled
    /\ UNCHANGED << popup_input, input_mode, input_width, items, show_popup >>

\* (KeyCode::Down, _) in Normal
NormalDown(code, mods) ==
    /\ code = Down
    /\ IF next_panics(selected, Len(items), overflow_checks)
       THEN Panic
       ELSE /\ SelBounded(next_selected(selected, Len(items)))
            /\ selected' = next_selected(selected, Len(items))
            /\ Handled
            /\ UNCHANGED << popup_input, input_mode, input_width, items, show_popup >>

\* (KeyCode::Up, _) in Normal
NormalUp(code, mods) ==
    /\ code = Up
    /\ IF previous_panics(selected, Len(items), overflow_checks)
       THEN Panic
       ELSE /\ SelBounded(previous_selected(selected, Len(items)))
            /\ selected' = previous_selected(selected, Len(items))
            /\ Handled
            /\ UNCHANGED << popup_input, input_mode, input_width, items, show_popup >>

\* the arms of the Normal match, in source order, match this key
NormalMatched(code, mods) ==
    \/ code = Char("p") /\ mods = "NONE"
    \/ code = Esc /\ mods = "NONE"
    \/ code \in { Left, Down, Up }

\* `_ => {}` in Normal
NormalOther(code, mods) ==
    /\ ~NormalMatched(code, mods)
    /\ Handled
    /\ UNCHANGED app

\* Shift+Enter that commits as plain Enter does
EditingEnterShift_Commits(code, mods) ==
    /\ code = Enter /\ mods = "SHIFT"
    /\ Len(items) < MaxItems
    /\ show_popup' = ~show_popup
    /\ items' = App_push(items, popup_input)
    /\ popup_input' = << >>
    /\ input_mode' = "Normal"
    /\ input_width' = set_input_width(popup_input')
    /\ Handled
    /\ UNCHANGED selected

\* (KeyCode::Enter, KeyModifiers::SHIFT) in Editing
EditingEnterShift(code, mods) ==
    /\ code = Enter /\ mods = "SHIFT"
    /\ Handled
    /\ UNCHANGED app

\* confirm that forgets to toggle show_popup
EditingEnter_KeepsPopup(code, mods) ==
    /\ code = Enter /\ mods = "NONE"
    /\ Len(items) < MaxItems
    /\ items' = App_push(items, popup_input)
    /\ popup_input' = << >>
    /\ input_mode' = "Normal"
    /\ input_width' = set_input_width(popup_input')
    /\ Handled
    /\ UNCHANGED << selected, show_popup >>

\* confirm that moves the selection to the new item
EditingEnter_SelectsNew(code, mods) ==
    /\ code = Enter /\ mods = "NONE"
    /\ Len(items) < MaxItems
    /\ show_popup' = ~show_popup
    /\ items' = App_push(items, popup_input)
    /\ selected' = Some(Len(items))
    /\ popup_input' = << >>
    /\ input_mode' = "Normal"
    /\ input_width' = set_input_width(popup_input')
    /\ Handled

\* (KeyCode::Enter, KeyModifiers::NONE) in Editing
EditingEnter(code, mods) ==
    /\ code = Enter /\ mods = "NONE"
    /\ Len(items) < MaxItems
    /\ show_popup' = ~show_popup
    /\ items' = App_push(items, popup_input)
    /\ popup_input' = << >>
    /\ input_mode' = "Normal"
    /\ input_width' = set_input_width(popup_input')
    /\ Handled
    /\ UNCHANGED selected

\* (KeyCode::Char(c), _) in Editing: the arm appends any character; the
\* sessions followed are those whose buffer stays within BufBounded
EditingChar(code, mods) ==
    /\ \E c \in Chars :
          /\ code = Char(c)
          /\ IF show_popup
             THEN /\ BufBounded(Append(popup_input, c), size)
                  /\ popup_input' = Append(popup_input, c)
                  /\ input_width' = set_input_width(popup_input')
             ELSE UNCHANGED << popup_input, input_width >>
    /\ Handled
    /\ UNCHANGED << input_mode, items, selected, show_popup >>

\* String::pop
pop(input) == IF Len(input) = 0 THEN input ELSE SubSeq(input, 1, Len(input) - 1)

\* (KeyCode::Backspace, KeyModifiers::NONE) in Editing; of a held-down
\* buffer only the lengths within BufBounded are followed
EditingBackspace(code, mods) ==
    /\ code = Backspace /\ mods = "NONE"
    /\ BufBounded(pop(popup_input), size)
    /\ popup_input' = pop(popup_input)
    /\ input_width' = set_input_width(popup_input')
    /\ Handled
    /\ UNCHANGED << input_mode, items, selected, show_popup >>

\* cancel that keeps the typed buffer
EditingEsc_KeepsBuffer(code, mods) ==
    /\ code = Esc /\ mods = "NONE"
    /\ IF show_popup
       THEN /\ input_mode' = "Normal"
            /\ show_popup' = ~show_popup
       ELSE UNCHANGED << input_mode, show_popup >>
    /\ Handled
    /\ UNCHANGED << popup_input, input_width, items, selected >>

\* cancel that also clears the selection
EditingEsc_Unselects(code, mods) ==
    /\ code = Esc /\ mods = "NONE"
    /\ IF show_popup
       THEN /\ popup_input' = << >>
            /\ input_mode' = "Normal"
            /\ show_popup' = ~show_popup
            /\ selected' = None
       ELSE UNCHANGED << popup_input, input_mode, show_popup, selected >>
    /\ Handled
    /\ UNCHANGED << input_width, items >>

\* Esc in Editing that returns Ok(()) as the Normal arm does
EditingEsc_Quits(code, mods) ==
    /\ code = Esc /\ mods = "NONE"
    /\ res' = "Ok"
    /\ pc' = "disable_raw_mode"
    /\ UNCHANGED << outcome, diagnostic, io_failed, term, overflow_checks, screen, app >>

\* (KeyCode::Esc, KeyModifiers::NONE) in Editing
EditingEsc(code, mods) ==
    /\ code = Esc /\ mods = "NONE"
    /\ IF show_popup
       THEN /\ popup_input' = << >>
            /\ input_mode' = "Normal"
            /\ show_popup' = ~show_popup
       ELSE UNCHANGED << popup_input, input_mode, show_popup >>
    /\ Handled
    /\ UNCHANGED << input_width, items, selected >>

\* the arms of the Editing match, in source order, match this key
EditingMatched(code, mods) ==
    \/ code = Enter /\ mods \in { "SHIFT", "NONE" }
    \/ code[1] = "Char"
    \/ code \in { Backspace, Esc } /\ mods = "NONE"

\* `_ => {}` in Editing
EditingOther(code, mods) ==
    /\ ~EditingMatched(code, mods)
    /\ Handled
    /\ UNCHANGED app

\* event::read() returned Event::Key(KeyEvent {code, modifiers, ..})
ReadKey ==
    /\ pc = "read"
    /\ \E code \in KeyCodes, mods \in KeyModifiers :
          \/ /\ input_mode = "Normal"
             /\ \/ NormalOpenPopup(code, mods)
                \/ NormalEsc(code, mods)
                \/ NormalLeft(code, mods)
                \/ NormalDown(code, mods)
                \/ NormalUp(code, mods)
                \/ NormalOther(code, mods)
          \/ /\ input_mode = "Editing"
             /\ \/ EditingEnterShift(code, mods)
                \/ EditingEnter(code, mods)
                \/ EditingChar(code, mods)
                \/ EditingBackspace(code, mods)
                \/ EditingEsc(code, mods)
                \/ EditingOther(code, mods)

\* ------------------------------------------------------------------ main: teardown

DisableRawModeOk ==
    /\ pc = "disable_raw_mode"
    /\ raw_mode' = FALSE
    /\ pc' = "leave_alternate_screen"
    /\ UNCHANGED << res, outcome, diagnostic, io_failed, alt_screen, overflow_checks, screen, app >>

DisableRawModeErr ==
    /\ pc = "disable_raw_mode"
    /\ ReturnErr
    /\ UNCHANGED << term, overflow_checks, screen, app >>

LeaveAlternateScreenOk ==
    /\ pc = "leave_alternate_screen"
    /\ alt_screen' = FALSE
    /\ pc' = "show_cursor"
    /\ UNCHANGED << res, outcome, diagnostic, io_failed, raw_mode, overflow_checks, screen, app >>

LeaveAlternateScreenErr ==
    /\ pc = "leave_alternate_screen"
    /\ alt_screen' \in BOOLEAN
    /\ ReturnErr
    /\ UNCHANGED << raw_mode, overflow_checks, screen, app >>

ShowCursorOk ==
    /\ pc = "show_cursor"
    /\ pc' = "report"
    /\ UNCHANGED << res, outcome, diagnostic, io_failed, term, overflow_checks, screen, app >>

ShowCursorErr ==
    /\ pc = "show_cursor"
    /\ ReturnErr
    /\ UNCHANGED << term, overflow_checks, screen, app >>

\* if let Err(err) = res { println!(..) }  Ok(())
Report ==
    /\ pc = "report"
    /\ diagnostic' = (res = "Err")
    /\ outcome' = "Ok"
    /\ pc' = "exited"
    /\ UNCHANGED << res, io_failed, term, overflow_checks, screen, app >>

\* println! at line 113 panics when stdout cannot be written: the loop's
\* error is not printed, the panic message goes to stderr, exit code 101
ReportPanic ==
    /\ pc = "report"
    /\ res = "Err"
    /\ Panic

\* the exit code of the process: 0 for Ok(()), 1 for Err, 101 for a panic
ExitCode(out) ==
    IF out = "Ok" THEN 0 ELSE IF out = "Err" THEN 1 ELSE IF out = "panic" THEN 101 ELSE -1

Next ==
    \/ EnableRawModeOk
    \/ EnableRawModeErr
    \/ EnterAlternateScreenOk
    \/ EnterAlternateScreenErr
    \/ TerminalNewOk
    \/ TerminalNewErr
    \/ DrawOk
    \/ DrawErr
    \/ ReadErr
    \/ ReadOtherEvent
    \/ ReadKey
    \/ DisableRawModeOk
    \/ DisableRawModeErr
    \/ LeaveAlternateScreenOk
    \/ LeaveAlternateScreenErr
    \/ ShowCursorOk
    \/ ShowCursorErr
    \/ Report
    \/ ReportPanic

Spec == Init /\ [][Next]_vars

SpecLayout == InitLayout /\ [][Next]_vars

SpecLong == InitLong /\ [][Next]_vars

TypeOK ==
    /\ pc \in { "enable_raw_mode", "enter_alternate_screen", "terminal_new", "draw",
                "read", "disable_raw_mode", "leave_alternate_screen", "show_cursor",
                "report", "exited" }
    /\ res \in { "pending", "Ok", "Err" }
    /\ outcome \in { "running", "Ok", "Err", "panic" }
    /\ BufBounded(popup_input, size)
    /\ input_mode \in { "Normal", "Editing" }
    /\ input_width \in 0..(U16Modulus - 1)
    /\ Len(items) <= MaxItems
    /\ SelBounded(selected)

\* ------------------------------------------------------------------ claims

Milk == << "m", "i", "l", "k" >>

Abc == << "a", "b", "c" >>

\* C1: in every reachable state the popup is visible if and only if the
\* mode is Editing.
C1_PopupVisibleIffEditing == show_popup <=> (input_mode = "Editing")

\* C1 witness: the popup has been opened again after an item was committed.
C1_Witness == show_popup /\ input_mode = "Editing" /\ Len(items) > 0 /\ pc = "read"

\* C2: in every reachable state the cached display width equals the
\* character count of the popup buffer.
C2_WidthIsCharCount == input_width = Len(popup_input)

\* C3: on an empty list the Down and Up keys (next, previous) never end
\* the process with a panic.
C3_EmptyListNavigationNeverPanics ==
    [][ (pc = "read" /\ input_mode = "Normal" /\ Len(items) = 0 /\
           \E mods \in KeyModifiers : NormalDown(Down, mods) \/ NormalUp(Up, mods))
        => outcome' # "panic" ]_vars

\* C4: if the item list is non-empty and a selection is set, then
\* 0 <= selected < len(items).
C4_SelectedInRange ==
    (Len(items) > 0 /\ IsSome(selected)) =>
        (0 <= Unwrap(selected) /\ Unwrap(selected) < Len(items))

\* C5: Enter with no modifier in Editing with the popup visible appends
\* exactly the item (buffer, 1) at the end of the list, sets mode Normal,
\* hides the popup, empties the buffer and sets the width to 0.
C5_EnterCommits ==
    [][ (pc = "read" /\ input_mode = "Editing" /\ show_popup /\ EditingEnter(Enter, "NONE"))
        => /\ items' = Append(items, << popup_input, 1 >>)
           /\ input_mode' = "Normal"
           /\ show_popup' = FALSE
           /\ popup_input' = << >>
           /\ input_width' = 0 ]_vars

\* C5 witness: after p, m, i, l, k, Enter the list's only item is
\* ("milk", 1), the mode is Normal and the popup is hidden and empty.
C5_Witness ==
    /\ items = << << Milk, 1 >> >>
    /\ input_mode = "Normal"
    /\ show_popup = FALSE
    /\ popup_input = << >>
    /\ input_width = 0

\* C6: Esc with no modifier in Editing with the popup visible empties the
\* buffer, sets mode Normal, hides the popup and leaves the items and the
\* selection unchanged.
C6_EscCancels ==
    [][ (pc = "read" /\ input_mode = "Editing" /\ show_popup /\ EditingEsc(Esc, "NONE"))
        => /\ popup_input' = << >>
           /\ input_mode' = "Normal"
           /\ show_popup' = FALSE
           /\ items' = items
           /\ selected' = selected ]_vars

\* C6 witness: the buffer "abc" has been cancelled over a non-empty list
\* with a selection (the width still shows the cancelled buffer's 3).
C6_Witness ==
    /\ input_mode = "Normal"
    /\ show_popup = FALSE
    /\ popup_input = << >>
    /\ input_width = Len(Abc)
    /\ Len(items) > 0
    /\ IsSome(selected)

\* C7: run_app returns Ok(()) only from a key read in Normal mode, and
\* every key event read in Editing mode leaves the loop running.
C7_QuitOnlyInNormal ==
    [][ /\ (res = "pending" /\ res' = "Ok") => (pc = "read" /\ input_mode = "Normal")
        /\ (input_mode = "Editing" /\ ReadKey) => (pc' = "draw" /\ res' = "pending") ]_vars

\* C7 witness: the user has quit after committing an item, so the quit
\* followed a return from Editing to Normal.
C7_Witness == res = "Ok" /\ input_mode = "Normal" /\ Len(items) > 0

\* C8: when the process has ended, raw mode is disabled and the alternate
\* screen has been left.
C8_TerminalRestoredAtExit == pc = "exited" => (raw_mode = FALSE /\ alt_screen = FALSE)

\* C9: the process result is failure with a diagnostic whenever the
\* terminal driver reported an I/O failure, and success on a user quit
\* without one.
C9_ExitCodeReflectsFailure ==
    pc = "exited" =>
        /\ io_failed => (ExitCode(outcome) # 0 /\ diagnostic)
        /\ (res = "Ok" /\ ~io_failed) => ExitCode(outcome) = 0

\* next() called n times from selection sel on a list of length len
RECURSIVE NextTimes(_, _, _)
NextTimes(sel, len, n) ==
    IF n = 0 THEN sel ELSE NextTimes(next_selected(sel, len), len, n - 1)

\* C10: on a non-empty list with the selection in range, next() called
\* exactly len times returns the selection to where it started.
C10_CyclicClosure ==
    (Len(items) > 0 /\ IsSome(selected) /\ Unwrap(selected) < Len(items)) =>
        NextTimes(selected, Len(items), Len(items)) = selected

\* C10 witness: a list of at least two items with the last one selected,
\* so the len calls include the wrap to index 0.
C10_Witness ==
    /\ Len(items) >= 2
    /\ selected = Some(Len(items) - 1)
    /\ NextTimes(selected, Len(items), 1) = Some(0)
    /\ NextTimes(selected, Len(items), Len(items)) = selected

\* C11: on a non-empty list with the selection in range, next() followed
\* by previous() leaves the selected index as it was.
C11_NextThenPreviousIsIdentity ==
    (Len(items) > 0 /\ IsSome(selected) /\ Unwrap(selected) < Len(items)) =>
        /\ ~next_panics(selected, Len(items), overflow_checks)
        /\ ~previous_panics(next_selected(selected, Len(items)), Len(items), overflow_checks)
        /\ previous_selected(next_selected(selected, Len(items)), Len(items)) = selected

\* C11 witness: the last of at least two items is selected, so next()
\* wraps to 0 and previous() wraps back to len - 1.
C11_Witness ==
    /\ Len(items) >= 2
    /\ selected = Some(Len(items) - 1)
    /\ next_selected(selected, Len(items)) = Some(0)
    /\ previous_selected(Some(0), Len(items)) = selected

\* C12: for every list and every prior selection (none or any index),
\* unselect() followed by next() selects index 0.
C12_UnselectThenNextSelectsZero ==
    /\ ~next_panics(unselect_selected(selected), Len(items), overflow_checks)
    /\ next_selected(unselect_selected(selected), Len(items)) = Some(0)

\* C12 witness: a list of at least two items with index 0 selected, from
\* which next() alone would select 1 and not 0.
C12_Witness ==
    /\ Len(items) >= 2
    /\ selected = Some(0)
    /\ next_selected(selected, Len(items)) = Some(1)
    /\ next_selected(unselect_selected(selected), Len(items)) = Some(0)

\* C13: in Editing with the popup visible, a character insert appends the
\* character at the end, a backspace removes the last character, the
\* display width afterwards equals the character count of the buffer, and
\* a backspace on an empty buffer leaves buffer and width unchanged.
C13_InsertBackspaceKeepWidth ==
    [][ (pc = "read" /\ input_mode = "Editing" /\ show_popup) =>
          /\ \A c \in Chars, mods \in KeyModifiers :
                EditingChar(Char(c), mods) =>
                    /\ popup_input' = Append(popup_input, c)
                    /\ input_width' = Len(popup_input')
          /\ EditingBackspace(Backspace, "NONE") =>
                /\ input_width' = Len(popup_input')
                /\ popup_input # << >> =>
                      popup_input' = SubSeq(popup_input, 1, Len(popup_input) - 1)
                /\ popup_input = << >> =>
                      (popup_input' = popup_input /\ input_width' = input_width) ]_vars

\* C15: in Editing, Enter with exactly the shift modifier commits nothing
\* and leaves mode, popup visibility, buffer, width, items and selection
\* unchanged.
C15_ShiftEnterIsNoOp ==
    [][ (pc = "read" /\ input_mode = "Editing" /\ EditingEnterShift(Enter, "SHIFT"))
        => UNCHANGED << input_mode, show_popup, popup_input, input_width, items, selected >> ]_vars

\* C15 witness: Editing with the popup visible and "milk" typed, about to
\* read a key, with room in the list for a commit.
C15_Witness ==
    /\ pc = "read"
    /\ input_mode = "Editing"
    /\ show_popup
    /\ popup_input = Milk
    /\ Len(items) < MaxItems
    /\ ENABLED (pc = "read" /\ EditingEnterShift(Enter, "SHIFT"))

\* C16: the commit performed by Enter with no modifier in Editing leaves
\* the selection (none or index i) as it was.
C16_AppendKeepsSelection ==
    [][ (pc = "read" /\ input_mode = "Editing" /\ EditingEnter(Enter, "NONE"))
        => (items' = App_push(items, popup_input) /\ selected' = selected) ]_vars

\* C16 witness: two items have been appended while index 0 stayed
\* selected, and the loop has not handled another key since the append.
C16_Witness ==
    /\ pc = "draw"
    /\ input_mode = "Normal"
    /\ Len(items) = 2
    /\ items[2][1] = Milk
    /\ selected = Some(0)

\* C17: across every transition the previous item sequence is a prefix of
\* the new one; the sequence changes only by a confirm (Enter, no
\* modifier, in Editing), which appends exactly one item.
C17_ItemsOnlyGrowByCommit ==
    [][ /\ Len(items') >= Len(items)
        /\ SubSeq(items', 1, Len(items)) = items
        /\ items' # items =>
              /\ pc = "read"
              /\ input_mode = "Editing"
              /\ EditingEnter(Enter, "NONE")
              /\ Len(items') = Len(items) + 1 ]_vars

\* C17 witness: two different items have been committed one after the
\* other.
C17_Witness ==
    /\ Len(items) = 2
    /\ items[1] = << Abc, 1 >>
    /\ items[2] = << Milk, 1 >>

\* C18: in Normal mode the Left, Down and Up keys, with any modifier,
\* leave the mode Normal and popup visibility, buffer, width and items
\* unchanged.
C18_NavigationFrame ==
    [][ (pc = "read" /\ input_mode = "Normal" /\
           \E mods \in KeyModifiers :
              \/ NormalLeft(Left, mods)
              \/ NormalDown(Down, mods)
              \/ NormalUp(Up, mods))
        => /\ input_mode' = "Normal"
           /\ UNCHANGED << show_popup, popup_input, input_width, items >> ]_vars

\* C18 witness: Normal mode over a two-item list with the last item
\* selected and a width left over from a cancelled buffer.
C18_Witness ==
    /\ pc = "draw"
    /\ input_mode = "Normal"
    /\ Len(items) = 2
    /\ selected = Some(1)
    /\ input_width = Len(Abc)

\* C19: in every reachable state in which the mode is Normal the popup
\* buffer is empty.
C19_NormalImpliesEmptyBuffer == input_mode = "Normal" => popup_input = << >>

\* C19 witness: back in Normal with an empty buffer after "abc" was typed
\* and committed.
C19_Witness ==
    /\ pc = "read"
    /\ input_mode = "Normal"
    /\ popup_input = << >>
    /\ items = << << Abc, 1 >> >>

\* C20: from every state of the event loop quit is reachable within two
\* presses of Esc with no modifier: in Editing the cancel guard (popup
\* visible) holds; a pending draw can complete, so that the next key is
\* read; Esc read in Editing leads to Normal with the loop running; and
\* Esc read in Normal ends the loop with Ok.
C20_QuitReachableWithinTwoEsc ==
    (outcome = "running" /\ pc \in { "draw", "read" }) =>
        /\ input_mode = "Editing" => show_popup
        /\ pc = "draw" => ENABLED (DrawOk /\ pc' = "read")
        /\ (pc = "read" /\ input_mode = "Editing") =>
               ENABLED (EditingEsc(Esc, "NONE") /\ input_mode' = "Normal" /\ pc' = "draw")
        /\ (pc = "read" /\ input_mode = "Normal") =>
               ENABLED (NormalEsc(Esc, "NONE") /\ res' = "Ok")

\* C14: centered_rect(60, 10, bounds) on bounds of width 100 and height
\* 100 is the rectangle with left margin 20, width 60, top margin 45 and
\* height 10; on every size, odd ones included, the rectangle lies inside
\* the bounds, its left margin and width are the floor of 20% and 60% of
\* the bounds width, and left margin + width + right margin is the bounds
\* width with the slack in the right margin.
C14_CenteredRegion ==
    IsSome(area) =>
        LET a == Unwrap(area)
            left == a.x - size.x
            right == (size.x + size.width) - (a.x + a.width)
            top == a.y - size.y
        IN  /\ size = Rect(0, 0, 100, 100) => a = Rect(20, 45, 60, 10)
            /\ left = (20 * size.width) \div 100
            /\ a.width = (60 * size.width) \div 100
            /\ top = (45 * size.height) \div 100
            /\ a.height = (10 * size.height) \div 100
            /\ right >= left
            /\ left + a.width + right = size.width

\* C14 witness: the popup has been drawn on a terminal of width 101 and
\* height 101: left margin 20, width 60, right margin 21.
C14_Witness ==
    /\ pc = "read"
    /\ show_popup
    /\ size = Rect(0, 0, 101, 101)
    /\ area = Some(Rect(20, 45, 60, 10))
    /\ size.width - (20 + 60) = 21
====
